---- MODULE Spec2Model ----
(***************************************************************************)
(* Model of rmnd_lca/electricity.py (class Electricity): the region        *)
(* correspondence resolver, supplier resolution, the population-weighted   *)
(* allocator, the three market builders and the relinking pass.            *)
(*                                                                         *)
(* Floating-point amounts are modelled as exact numbers <<n, d, e>>, the   *)
(* value (n / d) * 10^-e with n / d in lowest terms and d > 0.  A Python   *)
(* value that may be a str, a list or None is a record [kind, str, list].  *)
(* Names are strings of a finite vocabulary; Python's substring test       *)
(* `p in s` is computed on their word sequences (Words), which agrees with *)
(* it on this vocabulary.                                                  *)
(***************************************************************************)
EXTENDS Integers, Sequences, FiniteSets, TLC

VARIABLES db, rmd, geo, population, pc, error, printed, queries, call

vars == <<db, rmd, geo, population, pc, error, printed, queries, call>>

-----------------------------------------------------------------------------
(* Bounds of the model *)

\* longest candidate list geo.within returns in the resolver specification
MaxCand == 3
\* longest supplier list handed to the allocator in the allocator specification
MaxSuppliers == 3
\* most coal power plants in the initial inventory
MaxPlants == 2

-----------------------------------------------------------------------------
(* Exact arithmetic standing for Python's float arithmetic *)

RECURSIVE GCD(_, _)
GCD(a, b) == IF b = 0 THEN a ELSE GCD(b, a % b)

Abs(x) == IF x < 0 THEN -x ELSE x

\* n / d in lowest terms, as <<n, d, 0>>
Rat(n, d) == LET g == GCD(Abs(n), Abs(d))
                 s == IF d < 0 THEN -1 ELSE 1
             IN  <<(s * n) \div g, (s * d) \div g, 0>>

\* n * 10^-e, for the technical coefficients too small for a quotient of
\* machine integers; arithmetic keeps the exponent
Sci(n, e) == <<n, 1, e>>

RMul(x, y) == LET a == Rat(x[1], y[2])
                  b == Rat(y[1], x[2])
                  p == Rat(a[1] * b[1], a[2] * b[2])
              IN  <<p[1], p[2], x[3] + y[3]>>

\* of two numbers with the same exponent
RAdd(x, y) == LET r == Rat(x[1] * y[2] + y[1] * x[2], x[2] * y[2])
              IN  <<r[1], r[2], x[3]>>

RSub(x, y) == RAdd(x, <<-y[1], y[2], y[3]>>)

Zero == <<0, 1, 0>>
One == <<1, 1, 0>>

RECURSIVE RSum(_)
RSum(s) == IF s = <<>> THEN Zero ELSE RAdd(Head(s), RSum(Tail(s)))

-----------------------------------------------------------------------------
(* Python values *)

PyStr(s) == [kind |-> "str", str |-> s, list |-> <<>>]
PyList(l) == [kind |-> "list", str |-> "", list |-> l]
PyNone == [kind |-> "None", str |-> "", list |-> <<>>]

\* the items a `for x in v` loop visits: the elements of a list, the
\* characters of a str
Chars(s) == CASE s = "GLO" -> <<"G", "L", "O">>
              [] s = "" -> <<>>
              [] OTHER -> <<s>>

PyIter(v) == IF v.kind = "list" THEN v.list ELSE Chars(v.str)

Range(s) == {s[i] : i \in 1..Len(s)}

\* F applied to the value of e, with e evaluated once
With(e, F(_)) == CHOOSE r \in {F(v) : v \in {e}} : TRUE

RECURSIVE ListRemove(_, _)
\* list.remove(x): drops the first occurrence of x
ListRemove(l, x) == IF l = <<>> THEN <<>>
                ELSE IF Head(l) = x THEN Tail(l)
                ELSE <<Head(l)>> \o ListRemove(Tail(l), x)

-----------------------------------------------------------------------------
(* Region correspondence resolver *)

\* an element of a geomatcher answer: a tuple (namespace, name) such as
\* ('REMIND', 'EUR'), or a bare ecoinvent location string such as 'RER'
GeoTuple(ns, name) == [tuple |-> TRUE, ns |-> ns, val |-> name]
GeoStr(name) == [tuple |-> FALSE, ns |-> "", val |-> name]

\* result of a call: the value returned, the exception raised ("none" when
\* the call returns), the geomatcher queries it made and the lines it printed
Result(ret, raised, geoq, out) ==
    [ret |-> ret, raised |-> raised, geoq |-> geoq, out |-> out]

\* lines 104-113: the geomatcher answer without its tuples; an unknown
\* region raises KeyError, which is caught: a line is printed, None returned
remind_region_via_geo(location) ==
    IF location \in DOMAIN geo.intersects
    THEN Result(PyList(LET hits == SelectSeq(geo.intersects[location],
                                             LAMBDA r : ~r.tuple)
                       IN  [i \in 1..Len(hits) |-> hits[i].val]),
                "none", <<<<"intersects", location>>>>, <<>>)
    ELSE Result(PyNone, "none", <<<<"intersects", location>>>>,
                <<<<"Can't find location", location>>>>)

\* mutant: no special case for "World"
remind_to_ecoinvent_location_no_world(location) ==
    remind_region_via_geo(location)

remind_to_ecoinvent_location(location) ==
    IF location # "World"
    THEN remind_region_via_geo(location)
    ELSE Result(PyStr("GLO"), "none", <<>>, <<>>)

\* lines 144-165: the pairs tested, in order; the first of a pair is removed
\* when both are in the list
PriorityTable ==
    << <<"EUR", "NEU">>, <<"EUR", "REF">>, <<"OAS", "IND">>, <<"OAS", "JPN">>,
       <<"AFR", "SSA">>, <<"USA", "CAZ">>, <<"OAS", "CHA">>, <<"AFR", "MEA">>,
       <<"OAS", "MEA">>, <<"OAS", "REF">>, <<"OAS", "EUR">> >>

ApplyRule(l, pair) ==
    IF {pair[1], pair[2]} \subseteq Range(l) THEN ListRemove(l, pair[1]) ELSE l

RECURSIVE ApplyRules(_, _)
ApplyRules(l, rules) ==
    IF rules = <<>> THEN l
    ELSE CHOOSE r \in
            {ApplyRules(next, Tail(rules)) :
                next \in {ApplyRule(l, Head(rules))}} : TRUE

\* mutant: the first entry of the table is not applied
ApplyRulesSkipFirst(l, rules) == ApplyRules(l, Tail(rules))

TieBreak(l, rules) == ApplyRules(l, rules)

ecoinvent_to_remind_location(location) ==
    IF location = "GLO" THEN Result(PyList(<<"World">>), "none", <<>>, <<>>)
    ELSE IF location = "RoW" THEN Result(PyList(<<"CAZ">>), "none", <<>>, <<>>)
    ELSE IF location = "IAI Area, Russia & RER w/o EU27 & EFTA"
    THEN Result(PyList(<<"REF">>), "none", <<>>, <<>>)
    ELSE IF location \notin DOMAIN geo.within
    THEN Result(PyNone, "KeyError", <<<<"within", location>>>>, <<>>)
    ELSE LET found == SelectSeq(geo.within[location],
                                LAMBDA r : r.tuple /\ r.ns = "REMIND"
                                                   /\ r.val # "World")
             remind_location == [i \in 1..Len(found) |-> found[i].val]
             q == <<<<"within", location>>>>
         IN  IF Len(remind_location) > 1
             THEN Result(PyList(TieBreak(remind_location, PriorityTable)),
                         "none", q, <<>>)
             ELSE IF Len(remind_location) = 0
             THEN \* the message is printed and the function falls off its end
                  Result(PyNone, "none", q, <<<<"no loc for", location>>>>)
             ELSE Result(PyList(remind_location), "none", q, <<>>)

-----------------------------------------------------------------------------
(* Names, and Python's `pattern in name` on them *)

\* 'market group for electricity, <tier> voltage, ' + scenario + ', ' + str(year)
\* with scenario 'SSP2' and year 2030
HighName == "market group for electricity, high voltage, SSP2, 2030"
MediumName == "market group for electricity, medium voltage, SSP2, 2030"
LowName == "market group for electricity, low voltage, SSP2, 2030"

Words(s) ==
    CASE s = "market for electricity" -> <<"market", "for", "electricity">>
      [] s = "market group for electricity" ->
             <<"market", "group", "for", "electricity">>
      [] s = "electricity voltage transformation" ->
             <<"electricity", "voltage", "transformation">>
      [] s = "market for electricity, high voltage" ->
             <<"market", "for", "electricity", "high", "voltage">>
      [] s = "market for electricity, medium voltage" ->
             <<"market", "for", "electricity", "medium", "voltage">>
      [] s = "market for electricity, low voltage" ->
             <<"market", "for", "electricity", "low", "voltage">>
      [] s = "market group for electricity, high voltage" ->
             <<"market", "group", "for", "electricity", "high", "voltage">>
      [] s = "market group for electricity, medium voltage" ->
             <<"market", "group", "for", "electricity", "medium", "voltage">>
      [] s = "market group for electricity, low voltage" ->
             <<"market", "group", "for", "electricity", "low", "voltage">>
      [] s = "electricity, high voltage, import" ->
             <<"electricity", "high", "voltage", "import">>
      [] s = "electricity, high voltage, import from FR" ->
             <<"electricity", "high", "voltage", "import", "from", "FR">>
      [] s = "electricity, high voltage, production mix" ->
             <<"electricity", "high", "voltage", "production", "mix">>
      [] s = HighName ->
             <<"market", "group", "for", "electricity", "high", "voltage",
               "SSP2", "2030">>
      [] s = MediumName ->
             <<"market", "group", "for", "electricity", "medium", "voltage",
               "SSP2", "2030">>
      [] s = LowName ->
             <<"market", "group", "for", "electricity", "low", "voltage",
               "SSP2", "2030">>
      [] s = "electricity, high voltage" -> <<"electricity", "high", "voltage">>
      [] s = "electricity, medium voltage" ->
             <<"electricity", "medium", "voltage">>
      [] s = "electricity, low voltage" -> <<"electricity", "low", "voltage">>
      [] s = "electricity production, hard coal" ->
             <<"electricity", "production", "hard", "coal">>
      [] s = "electricity production, photovoltaic" ->
             <<"electricity", "production", "photovoltaic">>
      [] s = "steel production" -> <<"steel", "production">>
      [] s = "hard coal" -> <<"hard", "coal">>
      [] s = "market for hard coal" -> <<"market", "for", "hard", "coal">>
      [] s = "aluminium industry" -> <<"aluminium", "industry">>
      [] s = "carbon capture and storage" ->
             <<"carbon", "capture", "and", "storage">>
      [] s = "Carbon dioxide, fossil" -> <<"Carbon", "dioxide", "fossil">>
      [] s = "efficiency_oil_country" -> <<"efficiency", "oil", "country">>
      [] s = "efficiency_electrical" -> <<"efficiency", "electrical">>
      [] s = "efficiency_thermal" -> <<"efficiency", "thermal">>
      [] s = "efficiency_net" -> <<"efficiency", "net">>
      [] s = "kilowatt hour" -> <<"kilowatt", "hour">>
      [] s = "SE|Electricity|Coal" -> <<"SE", "Electricity", "Coal">>
      [] s = "SE|Electricity|Solar" -> <<"SE", "Electricity", "Solar">>
      [] s = "market for sulfur hexafluoride, liquid" ->
             <<"market", "for", "sulfur", "hexafluoride", "liquid">>
      [] s = "sulfur hexafluoride, liquid" ->
             <<"sulfur", "hexafluoride", "liquid">>
      [] s = "distribution network construction, electricity, low voltage" ->
             <<"distribution", "network", "construction", "electricity", "low",
               "voltage">>
      [] s = "distribution network, electricity, low voltage" ->
             <<"distribution", "network", "electricity", "low", "voltage">>
      [] s = "transmission network construction, electricity, medium voltage" ->
             <<"transmission", "network", "construction", "electricity",
               "medium", "voltage">>
      [] s = "transmission network, electricity, medium voltage" ->
             <<"transmission", "network", "electricity", "medium", "voltage">>
      [] OTHER -> <<s>>

\* pattern in name
Contains(name, pattern) ==
    LET n == Words(name)
        p == Words(pattern)
    IN  \E i \in 0..(Len(n) - Len(p)) : SubSeq(n, i + 1, i + Len(p)) = p

-----------------------------------------------------------------------------
(* Inventory records *)

\* a key the dictionary does not have
Absent == "<absent>"

Exchange(type, name, product, unit, location, amount) ==
    [utype |-> 0, loc |-> amount, amount |-> amount, type |-> type, pv |-> 0,
     product |-> product, name |-> name, unit |-> unit, location |-> location,
     input |-> Absent, categories |-> Absent]

Biosphere(name, unit, amount, input, categories) ==
    [utype |-> 0, loc |-> amount, amount |-> amount, type |-> "biosphere",
     pv |-> Absent, product |-> Absent, name |-> name, unit |-> unit,
     location |-> Absent, input |-> input, categories |-> categories]

\* a record of the inventory
Dataset(location, name, product, unit, database, exchanges) ==
    [location |-> location, name |-> name, product |-> product, unit |-> unit,
     database |-> database, comment |-> "", exchanges |-> exchanges]

\* a record a market builder makes; its generated 'code' (a fresh uuid) is
\* left out
NewDataset(location, name, product, database, exchanges) ==
    [location |-> location, name |-> name, product |-> product,
     unit |-> "kilowatt hour", database |-> database,
     comment |-> "Dataset produced from REMIND scenario output results",
     exchanges |-> exchanges]

-----------------------------------------------------------------------------
(* Supplier resolution and the population-weighted allocator *)

\* the records of d named in ecoinvent_technologies, located at one of the
\* items the loop over ecoinvent_regions visits, in kilowatt hour
get_suppliers_of_a_region(d, ecoinvent_regions, ecoinvent_technologies) ==
    SelectSeq(d, LAMBDA ds : /\ ds.name \in ecoinvent_technologies
                             /\ ds.location \in Range(PyIter(ecoinvent_regions))
                             /\ ds.unit = "kilowatt hour")

\* self.population.get(location, 0), read with int()
PopulationOf(location) ==
    IF location \in DOMAIN population THEN population[location] ELSE 0

RECURSIVE SumPopulation(_)
SumPopulation(suppliers) ==
    IF suppliers = <<>> THEN 0
    ELSE PopulationOf(Head(suppliers).location) + SumPopulation(Tail(suppliers))

\* mutant: the share is taken of the largest population, not of the sum
RECURSIVE MaxPopulation(_)
MaxPopulation(suppliers) ==
    IF suppliers = <<>> THEN 0
    ELSE LET m == MaxPopulation(Tail(suppliers))
             h == PopulationOf(Head(suppliers).location)
         IN  IF h > m THEN h ELSE m

\* the denominator of the share
LocsPopulation(suppliers) == SumPopulation(suppliers)

\* [raised, val]: Python's int / int raises ZeroDivisionError on a zero divisor
get_pop_weighted_share(supplier, suppliers) ==
    LET loc_population == PopulationOf(supplier.location)
        locs_population == LocsPopulation(suppliers)
    IN  IF locs_population = 0
        THEN [raised |-> "ZeroDivisionError", val |-> Zero]
        ELSE [raised |-> "none", val |-> Rat(loc_population, locs_population)]

\* lines 554-564 and 325-335: [suppliers, queried]; queried lists the
\* location lists handed to get_suppliers_of_a_region, in call order
CascadeFrom(d, ecoinvent_regions, ecoinvent_technologies) ==
    LET s1 == get_suppliers_of_a_region(d, ecoinvent_regions,
                                        ecoinvent_technologies)
        s2 == get_suppliers_of_a_region(d, PyList(<<"RER">>),
                                        ecoinvent_technologies)
        s3 == get_suppliers_of_a_region(d, PyList(<<"RoW">>),
                                        ecoinvent_technologies)
        q1 == <<PyIter(ecoinvent_regions)>>
    IN  IF Len(s1) # 0 THEN [suppliers |-> s1, queried |-> q1]
        ELSE IF Len(s2) # 0
        THEN [suppliers |-> s2, queried |-> q1 \o << <<"RER">> >>]
        ELSE [suppliers |-> s3, queried |-> q1 \o << <<"RER">>, <<"RoW">> >>]

ResolveSuppliers(d, ecoinvent_regions, ecoinvent_technologies) ==
    CascadeFrom(d, ecoinvent_regions, ecoinvent_technologies)

-----------------------------------------------------------------------------
(* Market builders *)

\* InventorySet(db).powerplants_map: technology label -> names of the
\* inventory processes that stand for it
powerplant_map ==
    [label \in {"Coal PC", "Solar PV"} |->
        IF label = "Coal PC" THEN {"electricity production, hard coal"}
        ELSE {"electricity production, photovoltaic"}]

\* self.rmd.electricity_markets.loc[technology, region, 0]
ScenarioShare(technology, region) == rmd.electricity_markets[technology][region]

\* lines 566-580 and 337-351: [excs, raised]
SupplierExchanges(amount, suppliers) ==
    With([i \in 1..Len(suppliers) |->
             get_pop_weighted_share(suppliers[i], suppliers)],
         LAMBDA share :
            IF \E i \in 1..Len(suppliers) : share[i].raised # "none"
            THEN [excs |-> <<>>, raised |-> share[1].raised]
            ELSE [excs |-> [i \in 1..Len(suppliers) |->
                              Exchange("technosphere", suppliers[i].name,
                                       suppliers[i].product, suppliers[i].unit,
                                       suppliers[i].location,
                                       RMul(amount, share[i].val))],
                  raised |-> "none"])

\* lines 548-580 and 318-351 for one technology that contributes to the mix:
\* [excs, raised, queries]
Contribution(d, tier, region, ecoinvent_regions, technology) ==
    IF ecoinvent_regions.kind = "None"
    THEN \* `for loc in None`
         [excs |-> <<>>, raised |-> "TypeError", queries |-> <<>>]
    ELSE With(ResolveSuppliers(d, ecoinvent_regions,
                  powerplant_map[rmd.rev_electricity_market_labels[technology]]),
              LAMBDA r :
                 With(SupplierExchanges(ScenarioShare(technology, region),
                                        r.suppliers),
                      LAMBDA x :
                         [excs |-> x.excs, raised |-> x.raised,
                          queries |-> [i \in 1..Len(r.queried) |->
                                         [tier |-> tier, region |-> region,
                                          technology |-> technology,
                                          locations |-> r.queried[i]]]]))

\* "Solar" in tech
IsSolar(tech) == Contains(tech, "Solar")

\* the amount of the reference product exchange of a market record
ProductionAmount == One

\* mutant: the reference product exchange is written with amount 0
ProductionExchangeZero(name, product, region) ==
    Exchange("production", name, product, "kilowatt hour", region, Zero)

ProductionExchange(name, product, region) ==
    Exchange("production", name, product, "kilowatt hour", region,
             ProductionAmount)

\* A loop of the code is a step operator and a recursion over the items.
\* The recursion hands each step's result on as a value (the variable of a
\* set constructor), so that a step is evaluated once.

\* lines 545-580, one technology: acc = [excs, raised, queries]
HighTechStep(d, region, ecoinvent_regions, technology, acc) ==
    IF ScenarioShare(technology, region) # Zero
    THEN With(Contribution(d, "high", region, ecoinvent_regions, technology),
              LAMBDA c : [excs |-> acc.excs \o c.excs, raised |-> c.raised,
                          queries |-> acc.queries \o c.queries])
    ELSE acc

\* line 542
RECURSIVE HighTechLoop(_, _, _, _, _)
HighTechLoop(d, region, ecoinvent_regions, gen_tech, acc) ==
    IF gen_tech = <<>> \/ acc.raised # "none" THEN acc
    ELSE CHOOSE r \in
            {HighTechLoop(d, region, ecoinvent_regions, Tail(gen_tech), next) :
                next \in {HighTechStep(d, region, ecoinvent_regions,
                                       Head(gen_tech), acc)}} : TRUE

\* lines 511-582, one region: acc = [db, raised, queries, out]
HighRegionStep(region, acc) ==
    LET r2e == remind_to_ecoinvent_location(region)
        out == acc.out \o r2e.out
    IN  IF Len(acc.db) < 2
        THEN \* self.db[1]
             [acc EXCEPT !.raised = "IndexError", !.out = out]
        ELSE With(HighTechLoop(acc.db, region, r2e.ret,
                      SelectSeq(rmd.variables, LAMBDA tech : ~IsSolar(tech)),
                      [excs |-> <<ProductionExchange(HighName,
                                    "electricity, high voltage", region)>>,
                       raised |-> "none", queries |-> <<>>]),
                  LAMBDA t :
                     [db |-> IF t.raised = "none"
                             THEN Append(acc.db,
                                      NewDataset(region, HighName,
                                                 "electricity, high voltage",
                                                 acc.db[2].database, t.excs))
                             ELSE acc.db,
                      raised |-> t.raised,
                      queries |-> acc.queries \o t.queries,
                      out |-> out])

\* line 510
RECURSIVE HighRegionLoop(_, _)
HighRegionLoop(gen_region, acc) ==
    IF gen_region = <<>> \/ acc.raised # "none" THEN acc
    ELSE CHOOSE r \in
            {HighRegionLoop(Tail(gen_region), next) :
                next \in {HighRegionStep(Head(gen_region), acc)}} : TRUE

create_new_markets_high_voltage(d) ==
    HighRegionLoop(rmd.regions,
                   [db |-> d, raised |-> "none", queries |-> <<>>, out |-> <<>>])

\* lines 397-498, one region
MediumRegionStep(region, acc) ==
    IF Len(acc.db) < 2
    THEN [acc EXCEPT !.raised = "IndexError"]
    ELSE LET new_exchanges ==
               << ProductionExchange(MediumName, "electricity, medium voltage",
                                     region),
                  Exchange("technosphere", HighName,
                      "electricity, high voltage", "kilowatt hour", region,
                      Rat(10062, 10000)),
                  Exchange("technosphere", MediumName,
                      "electricity, medium voltage", "kilowatt hour", region,
                      Rat(41, 10000)),
                  Exchange("technosphere",
                      "market for sulfur hexafluoride, liquid",
                      "sulfur hexafluoride, liquid", "kilogram", "RoW",
                      Sci(54, 9)),
                  Biosphere("Sulfur hexafluoride", "kilogram", Sci(54, 9),
                      "biosphere3/35d1dff5-b535-4628-9826-4a8fce08a1f2",
                      "air/non-urban air or from high stacks"),
                  Exchange("technosphere",
                      "transmission network construction, electricity, medium voltage",
                      "transmission network, electricity, medium voltage",
                      "kilometer", "RoW", Sci(18628, 12)) >>
         IN  [acc EXCEPT !.db = Append(acc.db,
                  NewDataset(region, MediumName, "electricity, medium voltage",
                             acc.db[2].database, new_exchanges))]

\* line 396
RECURSIVE MediumRegionLoop(_, _)
MediumRegionLoop(gen_region, acc) ==
    IF gen_region = <<>> \/ acc.raised # "none" THEN acc
    ELSE CHOOSE r \in
            {MediumRegionLoop(Tail(gen_region), next) :
                next \in {MediumRegionStep(Head(gen_region), acc)}} : TRUE

create_new_markets_medium_voltage(d) ==
    MediumRegionLoop(rmd.regions,
                     [db |-> d, raised |-> "none", queries |-> <<>>, out |-> <<>>])

\* lines 313-351, one technology:
\* acc = [excs, raised, queries, out, solar_amount]
LowTechStep(d, region, technology, acc) ==
    IF ScenarioShare(technology, region) # Zero
    THEN With(remind_to_ecoinvent_location(region),
              LAMBDA r2e :
                 With(Contribution(d, "low", region, r2e.ret, technology),
                      LAMBDA c :
                         [excs |-> acc.excs \o c.excs,
                          raised |-> c.raised,
                          queries |-> acc.queries \o c.queries,
                          out |-> acc.out \o r2e.out,
                          solar_amount |->
                              RAdd(acc.solar_amount,
                                   ScenarioShare(technology, region))]))
    ELSE acc

\* line 311
RECURSIVE LowTechLoop(_, _, _, _)
LowTechLoop(d, region, gen_tech, acc) ==
    IF gen_tech = <<>> \/ acc.raised # "none" THEN acc
    ELSE CHOOSE r \in
            {LowTechLoop(d, region, Tail(gen_tech), next) :
                next \in {LowTechStep(d, region, Head(gen_tech), acc)}} : TRUE

\* the input from the medium voltage market, line 359
MediumInput(solar_amount) == RMul(RSub(One, solar_amount), Rat(10276, 10000))

\* lines 239-384, one region: acc = [db, raised, queries, out]
LowRegionStep(region, acc) ==
    IF Len(acc.db) < 2
    THEN [acc EXCEPT !.raised = "IndexError"]
    ELSE LET first ==
               << ProductionExchange(LowName, "electricity, low voltage",
                                     region),
                  Exchange("technosphere",
                      "market for sulfur hexafluoride, liquid",
                      "sulfur hexafluoride, liquid", "kilogram", "RoW",
                      Sci(299, 11)),
                  Biosphere("Sulfur hexafluoride", "kilogram", Sci(299, 11),
                      "biosphere3/35d1dff5-b535-4628-9826-4a8fce08a1f2",
                      "air/non-urban air or from high stacks"),
                  Exchange("technosphere",
                      "distribution network construction, electricity, low voltage",
                      "distribution network, electricity, low voltage",
                      "kilometer", "RoW", Sci(874, 10)) >>
             last(solar_amount) ==
               << Exchange("technosphere", MediumName,
                      "electricity, medium voltage", "kilowatt hour", region,
                      MediumInput(solar_amount)),
                  Exchange("technosphere", LowName,
                      "electricity, low voltage", "kilowatt hour", region,
                      Rat(298, 10000)) >>
         IN  With(LowTechLoop(acc.db, region,
                      SelectSeq(rmd.variables, IsSolar),
                      [excs |-> first, raised |-> "none", queries |-> <<>>,
                       out |-> <<>>, solar_amount |-> Zero]),
                  LAMBDA t :
                     [db |-> IF t.raised = "none"
                             THEN Append(acc.db,
                                      NewDataset(region, LowName,
                                          "electricity, low voltage",
                                          acc.db[2].database,
                                          t.excs \o last(t.solar_amount)))
                             ELSE acc.db,
                      raised |-> t.raised,
                      queries |-> acc.queries \o t.queries,
                      out |-> acc.out \o t.out])

\* line 238
RECURSIVE LowRegionLoop(_, _)
LowRegionLoop(gen_region, acc) ==
    IF gen_region = <<>> \/ acc.raised # "none" THEN acc
    ELSE CHOOSE r \in
            {LowRegionLoop(Tail(gen_region), next) :
                next \in {LowRegionStep(Head(gen_region), acc)}} : TRUE

create_new_markets_low_voltage(d) ==
    LowRegionLoop(rmd.regions,
                  [db |-> d, raised |-> "none", queries |-> <<>>, out |-> <<>>])

-----------------------------------------------------------------------------
(* Relinking *)

\* mutant: the last region of the list
PickLastRegion(l) == l[Len(l)]

\* the element of the list returned for a location that becomes the
\* location of the exchange: the first
PickRegion(l) == l[1]

\* lines 604-615, one tier: acc = [exc, raised, out]
RelinkTier(acc, word, name, product) ==
    IF acc.raised # "none" THEN acc
    ELSE IF acc.exc.product = Absent
    THEN [acc EXCEPT !.raised = "KeyError"]
    ELSE IF ~Contains(acc.exc.product, word) THEN acc
    ELSE LET renamed == [acc.exc EXCEPT !.name = name, !.product = product]
         IN  With(ecoinvent_to_remind_location(acc.exc.location),
                  LAMBDA e2r :
                     IF e2r.raised # "none"
                     THEN [exc |-> renamed, raised |-> e2r.raised,
                           out |-> acc.out \o e2r.out]
                     ELSE IF e2r.ret.kind = "None"
                     THEN \* None[0]
                          [exc |-> renamed, raised |-> "TypeError",
                           out |-> acc.out \o e2r.out]
                     ELSE IF Len(PyIter(e2r.ret)) = 0
                     THEN [exc |-> renamed, raised |-> "IndexError",
                           out |-> acc.out \o e2r.out]
                     ELSE [exc |-> [renamed EXCEPT
                                       !.location = PickRegion(PyIter(e2r.ret))],
                           raised |-> "none", out |-> acc.out \o e2r.out])

\* mutant: the type of the exchange is not looked at
RelinkExchangeAnyType(exc, out) ==
    IF /\ \/ Contains(exc.unit, "kilowatt hour")
          \/ Contains(exc.name, "market for electricity")
          \/ Contains(exc.name, "electricity voltage transformation")
          \/ Contains(exc.name, "market group for electricity")
       /\ exc.unit = "kilowatt hour"
    THEN CHOOSE r \in
            {RelinkTier(m, "low", LowName, "electricity, low voltage") :
                m \in {RelinkTier(h, "medium", MediumName,
                                  "electricity, medium voltage") :
                    h \in {RelinkTier([exc |-> exc, raised |-> "none",
                                       out |-> out],
                                      "high", HighName,
                                      "electricity, high voltage")}}} : TRUE
    ELSE [exc |-> exc, raised |-> "none", out |-> out]

\* lines 598-615 for one exchange: [exc, raised, out]
RelinkExchange(exc, out) ==
    IF /\ \/ Contains(exc.unit, "kilowatt hour")
          \/ Contains(exc.name, "market for electricity")
          \/ Contains(exc.name, "electricity voltage transformation")
          \/ Contains(exc.name, "market group for electricity")
       /\ exc.type # "production"
       /\ exc.unit = "kilowatt hour"
    THEN CHOOSE r \in
            {RelinkTier(m, "low", LowName, "electricity, low voltage") :
                m \in {RelinkTier(h, "medium", MediumName,
                                  "electricity, medium voltage") :
                    h \in {RelinkTier([exc |-> exc, raised |-> "none",
                                       out |-> out],
                                      "high", HighName,
                                      "electricity, high voltage")}}} : TRUE
    ELSE [exc |-> exc, raised |-> "none", out |-> out]

\* one exchange of the loop of line 598: acc = [excs, raised, out]; the
\* exchanges after one that raised are left as they were
RelinkExchangeStep(exc, acc) ==
    IF acc.raised # "none" THEN [acc EXCEPT !.excs = Append(acc.excs, exc)]
    ELSE With(RelinkExchange(exc, acc.out),
              LAMBDA r : [excs |-> Append(acc.excs, r.exc),
                          raised |-> r.raised, out |-> r.out])

RECURSIVE RelinkExchanges(_, _)
RelinkExchanges(todo, acc) ==
    IF todo = <<>> THEN acc
    ELSE CHOOSE r \in
            {RelinkExchanges(Tail(todo), next) :
                next \in {RelinkExchangeStep(Head(todo), acc)}} : TRUE

\* one record of the loop of line 596: acc = [db, raised, out]
RelinkDatasetStep(ds, acc) ==
    IF acc.raised # "none" \/ Contains(ds.name, "market group for electricity")
    THEN [acc EXCEPT !.db = Append(acc.db, ds)]
    ELSE With(RelinkExchanges(ds.exchanges,
                  [excs |-> <<>>, raised |-> "none", out |-> acc.out]),
              LAMBDA r : [db |-> Append(acc.db, [ds EXCEPT !.exchanges = r.excs]),
                          raised |-> r.raised, out |-> r.out])

RECURSIVE RelinkDatasets(_, _)
RelinkDatasets(todo, acc) ==
    IF todo = <<>> THEN acc
    ELSE CHOOSE r \in
            {RelinkDatasets(Tail(todo), next) :
                next \in {RelinkDatasetStep(Head(todo), acc)}} : TRUE

relink_activities_to_new_markets(d) ==
    RelinkDatasets(d, [db |-> <<>>, raised |-> "none", out |-> <<>>])

-----------------------------------------------------------------------------
(* update_electricity_markets *)

list_to_remove ==
    << "market group for electricity, high voltage",
       "market group for electricity, medium voltage",
       "market group for electricity, low voltage",
       "market for electricity, high voltage",
       "market for electricity, medium voltage",
       "market for electricity, low voltage",
       "electricity, high voltage, import",
       "electricity, high voltage, production mix" >>

\* mutant: the market groups are kept
RemoveOldMarketsOnly(d) ==
    SelectSeq(d, LAMBDA i : ~\E k \in 4..Len(list_to_remove) :
                                 Contains(i.name, list_to_remove[k]))

\* line 930
RemoveOldMarkets(d) ==
    SelectSeq(d, LAMBDA i : ~\E k \in 1..Len(list_to_remove) :
                                 Contains(i.name, list_to_remove[k]))

\* mutant: relinking is called before the low voltage markets are built
PhaseAfterRelinkEarly(phase) ==
    CASE phase = "remove" -> "high"
      [] phase = "high" -> "medium"
      [] phase = "medium" -> "relink"
      [] phase = "relink" -> "low"
      [] phase = "low" -> "done"

\* lines 930-945: the statement that follows each call
PhaseAfter(phase) ==
    CASE phase = "remove" -> "high"
      [] phase = "high" -> "medium"
      [] phase = "medium" -> "low"
      [] phase = "low" -> "relink"
      [] phase = "relink" -> "done"

\* where the run goes after a call: an exception ends it
Continue(phase, raised) ==
    /\ error' = raised
    /\ pc' = IF raised = "none" THEN PhaseAfter(phase) ELSE "aborted"

RemoveOld ==
    /\ pc = "remove"
    /\ printed' = Append(printed, <<"Remove old electricity datasets">>)
    /\ db' = RemoveOldMarkets(db)
    /\ Continue("remove", "none")
    /\ UNCHANGED <<rmd, geo, population, queries, call>>

CreateHigh ==
    /\ pc = "high"
    /\ \E r \in {create_new_markets_high_voltage(db)} :
           /\ db' = r.db
           /\ printed' = Append(printed, <<"Create high voltage markets.">>)
                            \o r.out
           /\ queries' = queries \o r.queries
           /\ Continue("high", r.raised)
    /\ UNCHANGED <<rmd, geo, population, call>>

CreateMedium ==
    /\ pc = "medium"
    /\ \E r \in {create_new_markets_medium_voltage(db)} :
           /\ db' = r.db
           /\ printed' = Append(printed, <<"Create medium voltage markets.">>)
                            \o r.out
           /\ queries' = queries \o r.queries
           /\ Continue("medium", r.raised)
    /\ UNCHANGED <<rmd, geo, population, call>>

CreateLow ==
    /\ pc = "low"
    /\ \E r \in {create_new_markets_low_voltage(db)} :
           /\ db' = r.db
           /\ printed' = Append(printed, <<"Create low voltage markets.">>)
                            \o r.out
           /\ queries' = queries \o r.queries
           /\ Continue("low", r.raised)
    /\ UNCHANGED <<rmd, geo, population, call>>

Relink ==
    /\ pc = "relink"
    /\ \E r \in {relink_activities_to_new_markets(db)} :
           /\ db' = r.db
           /\ printed' = Append(printed,
                                <<"Link activities to new electricity markets.">>)
                            \o r.out
           /\ Continue("relink", r.raised)
    /\ UNCHANGED <<rmd, geo, population, queries, call>>

-----------------------------------------------------------------------------
(* The inventory, scenario and lookup tables the runs start from *)

Plant(name, product, location) ==
    Dataset(location, name, product, "kilowatt hour", "ecoinvent",
            <<Exchange("production", name, product, "kilowatt hour", location,
                       One)>>)

CoalPlant(location) ==
    Plant("electricity production, hard coal", "electricity, high voltage",
          location)

SolarPlant(location) ==
    Plant("electricity production, photovoltaic", "electricity, low voltage",
          location)

\* a record that consumes electricity from the markets of the inventory
Consumer ==
    Dataset("DE", "steel production", "steel", "kilogram", "ecoinvent",
        << Exchange("production", "steel production", "steel", "kilogram",
                    "DE", One),
           Exchange("technosphere", "market for electricity, medium voltage",
                    "electricity, medium voltage", "kilowatt hour", "DE",
                    Rat(1, 2)),
           Exchange("technosphere",
                    "market group for electricity, high voltage",
                    "electricity, high voltage", "kilowatt hour", "GLO",
                    Rat(1, 4)) >>)

\* a market of the inventory that update_electricity_markets replaces
OldMarket ==
    Dataset("DE", "market for electricity, high voltage",
            "electricity, high voltage", "kilowatt hour", "ecoinvent",
        << Exchange("production", "market for electricity, high voltage",
                    "electricity, high voltage", "kilowatt hour", "DE", One),
           Exchange("technosphere", "electricity production, hard coal",
                    "electricity, high voltage", "kilowatt hour", "DE", One) >>)

OtherMarket ==
    Dataset("RoW", "market for sulfur hexafluoride, liquid",
            "sulfur hexafluoride, liquid", "kilogram", "ecoinvent",
        << Exchange("production", "market for sulfur hexafluoride, liquid",
                    "sulfur hexafluoride, liquid", "kilogram", "RoW", One) >>)

CoalSites == <<"DE", "FR", "RER", "RoW", "GLO">>
SolarSites == <<"DE">>

Inventory(coal, solar) ==
    LET c == SelectSeq(CoalSites, LAMBDA l : l \in coal)
        s == SelectSeq(SolarSites, LAMBDA l : l \in solar)
    IN  <<Consumer, OldMarket, OtherMarket>>
            \o [i \in 1..Len(c) |-> CoalPlant(c[i])]
            \o [i \in 1..Len(s) |-> SolarPlant(s[i])]

Regions == <<"EUR", "World">>
Variables == <<"SE|Electricity|Coal", "SE|Electricity|Solar">>
ShareValues == {Zero, Rat(1, 4)}

Scenario(markets) ==
    [regions |-> Regions, variables |-> Variables,
     electricity_markets |-> markets,
     rev_electricity_market_labels |->
        [v \in Range(Variables) |->
            IF v = "SE|Electricity|Coal" THEN "Coal PC" ELSE "Solar PV"]]

\* what geo.within answers for a location contained in the regions cands
WithinAnswer(cands) ==
    <<GeoTuple("REMIND", "World"), GeoStr("RER")>>
        \o [i \in 1..Len(cands) |-> GeoTuple("REMIND", cands[i])]

Geomatcher(cands) ==
    [within |-> [l \in {"DE", "FR"} |->
                    IF l = "DE" THEN WithinAnswer(cands)
                    ELSE WithinAnswer(<<"EUR">>)],
     intersects |-> [r \in {"EUR"} |->
                        <<GeoStr("DE"), GeoTuple("REMIND", "EUR"), GeoStr("FR")>>]]

Population(de, fr, rer) ==
    IF rer = 0 THEN [l \in {"DE", "FR"} |-> IF l = "DE" THEN de ELSE fr]
    ELSE [l \in {"DE", "FR", "RER"} |->
             IF l = "DE" THEN de ELSE IF l = "FR" THEN fr ELSE rer]

NoCall ==
    [fn |-> "none", arg |-> "", from |-> "", ret |-> PyNone, raised |-> "none",
     geoq |-> <<>>, out |-> <<>>, suppliers |-> <<>>, shares |-> <<>>,
     before |-> <<>>, other |-> <<>>]

Init ==
    /\ \E coal \in SUBSET Range(CoalSites), solar \in SUBSET Range(SolarSites) :
          /\ Cardinality(coal) <= MaxPlants
          /\ db = Inventory(coal, solar)
    /\ \E markets \in [Range(Variables) -> [Range(Regions) -> ShareValues]] :
          rmd = Scenario(markets)
    /\ \E cands \in {<<>>, <<"EUR">>, <<"EUR", "NEU">>, <<"LAM", "EUR">>} :
          geo = Geomatcher(cands)
    /\ \E de \in {0, 7000000}, rer \in {0, 5000000} :
          population = Population(de, 3000000, rer)
    /\ pc = "remove"
    /\ error = "none"
    /\ printed = <<>>
    /\ queries = <<>>
    /\ call = NoCall

Next == RemoveOld \/ CreateHigh \/ CreateMedium \/ CreateLow \/ Relink

Spec == Init /\ [][Next]_vars

-----------------------------------------------------------------------------
(* The resolver on its own: one call, then a call on what it returned *)

ResolverRegions == {"EUR", "NEU", "OAS", "REF", "LAM"}

\* the lists of distinct regions geo.within may answer
CandidateLists ==
    {c \in UNION {[1..n -> ResolverRegions] : n \in 0..MaxCand} :
        \A i, j \in 1..Len(c) : i # j => c[i] # c[j]}

InitResolver ==
    /\ db = <<>>
    /\ rmd = Scenario([v \in Range(Variables) |-> [r \in Range(Regions) |-> Zero]])
    /\ \E cands \in CandidateLists : geo = Geomatcher(cands)
    /\ population = Population(0, 0, 0)
    /\ pc = "idle"
    /\ error = "none"
    /\ printed = <<>>
    /\ queries = <<>>
    /\ call = NoCall

Returned(fn, arg, from, r) ==
    /\ call' = [NoCall EXCEPT !.fn = fn, !.arg = arg, !.from = from,
                              !.ret = r.ret, !.raised = r.raised,
                              !.geoq = r.geoq, !.out = r.out]
    /\ printed' = printed \o r.out
    /\ error' = r.raised
    /\ UNCHANGED <<db, rmd, geo, population, queries>>

CallEcoinventToRemind ==
    /\ pc = "idle"
    /\ \E location \in {"GLO", "RoW", "IAI Area, Russia & RER w/o EU27 & EFTA",
                        "DE", "FR", "XX"} :
          Returned("ecoinvent_to_remind_location", location, "",
                   ecoinvent_to_remind_location(location))
    /\ pc' = "returned"

CallRemindToEcoinvent ==
    /\ pc = "idle"
    /\ \E region \in {"World", "EUR", "ZZZ"} :
          Returned("remind_to_ecoinvent_location", region, "",
                   remind_to_ecoinvent_location(region))
    /\ pc' = "returned"

\* the other function on the value the first call returned
RoundTrip ==
    /\ pc = "returned"
    /\ call.raised = "none"
    /\ \/ /\ call.fn = "remind_to_ecoinvent_location"
          /\ call.ret.kind = "str"
          /\ Returned("ecoinvent_to_remind_location", call.ret.str, call.arg,
                      ecoinvent_to_remind_location(call.ret.str))
       \/ /\ call.fn = "ecoinvent_to_remind_location"
          /\ call.ret.kind = "list"
          /\ Len(call.ret.list) > 0
          /\ Returned("remind_to_ecoinvent_location", call.ret.list[1],
                      call.arg, remind_to_ecoinvent_location(call.ret.list[1]))
    /\ pc' = "round trip"

NextResolver == CallEcoinventToRemind \/ CallRemindToEcoinvent \/ RoundTrip

SpecResolver == InitResolver /\ [][NextResolver]_vars

-----------------------------------------------------------------------------
(* The allocator on its own: the shares of every record of a supplier list *)

AllocatorSites == {"DE", "FR", "RER"}

InitAllocator ==
    /\ db = <<>>
    /\ rmd = Scenario([v \in Range(Variables) |-> [r \in Range(Regions) |-> Zero]])
    /\ geo = Geomatcher(<<"EUR">>)
    /\ \E de \in {0, 3000000, 7000000}, fr \in {0, 3000000, 7000000} :
          population = Population(de, fr, 0)
    /\ pc = "idle"
    /\ error = "none"
    /\ printed = <<>>
    /\ queries = <<>>
    /\ call = NoCall

\* lines 566-567 and 337-338: the share of each supplier of the list
Allocate ==
    /\ pc = "idle"
    /\ \E sites \in UNION {[1..n -> AllocatorSites] : n \in 1..MaxSuppliers} :
          LET suppliers == [i \in 1..Len(sites) |-> CoalPlant(sites[i])]
              shares == [i \in 1..Len(suppliers) |->
                           get_pop_weighted_share(suppliers[i], suppliers)]
          IN  /\ call' = [NoCall EXCEPT !.fn = "get_pop_weighted_share",
                                        !.suppliers = suppliers,
                                        !.shares = shares,
                                        !.raised = shares[1].raised]
              /\ error' = shares[1].raised
    /\ pc' = "returned"
    /\ UNCHANGED <<db, rmd, geo, population, printed, queries>>

NextAllocator == Allocate

SpecAllocator == InitAllocator /\ [][NextAllocator]_vars

-----------------------------------------------------------------------------
(* Properties *)

\* the names of the inventory processes that stand for a scenario technology
SupplierNames(technology) ==
    powerplant_map[rmd.rev_electricity_market_labels[technology]]

\* the tier market a technology is fed into
TierMarket(technology) == IF IsSolar(technology) THEN LowName ELSE HighName

\* the exchanges of a record that come from the suppliers of a technology
SupplierInputs(ds, technology) ==
    SelectSeq(ds.exchanges,
              LAMBDA exc : /\ exc.type = "technosphere"
                           /\ exc.name \in SupplierNames(technology))

Amounts(excs) == [i \in 1..Len(excs) |-> excs[i].amount]

Composed == pc \in {"relink", "done"}

\* C1: after market composition, in the tier market of every region the
\* amounts of the exchanges emitted for a technology with a non-zero
\* scenario share sum to that share.
C1_SharesSumToScenarioShare ==
    Composed =>
        \A k \in 1..Len(rmd.regions), technology \in Range(rmd.variables) :
            ScenarioShare(technology, rmd.regions[k]) # Zero =>
                \E i \in 1..Len(db) :
                    /\ db[i].name = TierMarket(technology)
                    /\ db[i].location = rmd.regions[k]
                    /\ RSum(Amounts(SupplierInputs(db[i], technology)))
                          = ScenarioShare(technology, rmd.regions[k])

SynthesizedNames == {HighName, MediumName, LowName}

ProductionExchanges(ds) ==
    SelectSeq(ds.exchanges, LAMBDA exc : exc.type = "production")

\* C2: every record a market builder appended has exactly one production
\* exchange, and its amount is 1.
C2_OneProductionExchange ==
    \A i \in 1..Len(db) :
        db[i].name \in SynthesizedNames =>
            /\ Len(ProductionExchanges(db[i])) = 1
            /\ ProductionExchanges(db[i])[1].amount = One

\* the three builders have run, and the high voltage record of a region
\* holds supplier inputs besides its production exchange
C2_Witness ==
    /\ Composed
    /\ \A name \in SynthesizedNames : \E i \in 1..Len(db) : db[i].name = name
    /\ \E i \in 1..Len(db) :
          db[i].name = HighName /\ Len(db[i].exchanges) > 2

PhaseLines ==
    << <<"Remove old electricity datasets">>,
       <<"Create high voltage markets.">>,
       <<"Create medium voltage markets.">>,
       <<"Create low voltage markets.">>,
       <<"Link activities to new electricity markets.">> >>

AllTiersExist ==
    \A k \in 1..Len(rmd.regions), name \in SynthesizedNames :
        \E i \in 1..Len(db) :
            db[i].name = name /\ db[i].location = rmd.regions[k]

\* an exchange of a record that is no synthesized market points at one
Relinked ==
    \E i \in 1..Len(db) :
        /\ db[i].name \notin SynthesizedNames
        /\ \E j \in 1..Len(db[i].exchanges) :
              db[i].exchanges[j].name \in SynthesizedNames

\* C3: the phases run in the order remove, high, medium, low, relink, and
\* relinking neither starts nor acts before a high, a medium and a low
\* voltage record exists for every scenario region.
C3_PhaseOrder ==
    LET phases == SelectSeq(printed, LAMBDA line : line \in Range(PhaseLines))
    IN  /\ Len(phases) <= Len(PhaseLines)
        /\ phases = SubSeq(PhaseLines, 1, Len(phases))
        /\ (pc = "relink" \/ PhaseLines[5] \in Range(printed) \/ Relinked)
              => AllTiersExist

\* a whole run: relinking has rewritten an exchange of the consumer
C3_Witness == pc = "done" /\ error = "none" /\ Relinked /\ AllTiersExist

\* the inventory locations a scenario region resolves to: the value
\* remind_to_ecoinvent_location returns, a single location standing for itself
ResolvedLocations(region) ==
    LET r == remind_to_ecoinvent_location(region).ret
    IN  IF r.kind = "str" THEN <<r.str>>
        ELSE IF r.kind = "list" THEN r.list ELSE <<>>

\* the power plants of a technology at some locations; no phase adds,
\* removes or moves a power plant, so the answer is the same all run long
PlantsAt(locations, technology) ==
    get_suppliers_of_a_region(db, PyList(locations), SupplierNames(technology))

\* the suppliers of the one cascade step that applies
CascadeStepSuppliers(region, technology) ==
    IF PlantsAt(ResolvedLocations(region), technology) # <<>>
    THEN PlantsAt(ResolvedLocations(region), technology)
    ELSE IF PlantsAt(<<"RER">>, technology) # <<>>
    THEN PlantsAt(<<"RER">>, technology)
    ELSE PlantsAt(<<"RoW">>, technology)

Locations(recs) == [i \in 1..Len(recs) |-> recs[i].location]

\* C4: the suppliers a high or low voltage record draws on for a technology
\* are those of exactly one cascade step (the region's resolved locations,
\* else 'RER', else 'RoW'), and 'RER' or 'RoW' is queried only when every
\* earlier step has no supplier.
C4_CascadeUsesResolvedLocations ==
    /\ \A q \in 1..Len(queries) :
          LET e == queries[q]
          IN  /\ e.locations = <<"RER">> =>
                    PlantsAt(ResolvedLocations(e.region), e.technology) = <<>>
              /\ e.locations = <<"RoW">> =>
                    /\ PlantsAt(ResolvedLocations(e.region), e.technology) = <<>>
                    /\ PlantsAt(<<"RER">>, e.technology) = <<>>
    /\ \A i \in 1..Len(db), technology \in Range(rmd.variables) :
          (/\ db[i].name = TierMarket(technology)
           /\ ScenarioShare(technology, db[i].location) # Zero)
             => Locations(SupplierInputs(db[i], technology))
                   = Locations(CascadeStepSuppliers(db[i].location, technology))

\* C5: when the 'RoW' step of the cascade finds no supplier either, the run
\* stops with an error or prints a line that names the technology.
C5_UnresolvedDemandSurfaced ==
    \A q \in 1..Len(queries) :
        (/\ queries[q].locations = <<"RoW">>
         /\ PlantsAt(<<"RoW">>, queries[q].technology) = <<>>)
           => \/ error # "none"
              \/ \E line \in Range(printed) :
                    queries[q].technology \in Range(line)

Allocated == call.fn = "get_pop_weighted_share"

\* C6: with a non-zero total, the share of every record is the population of
\* its location over the total of the list (0 for a location without an
\* entry), the shares of the list sum to 1, and 7,000,000 next to 3,000,000
\* gives 7/10 and 3/10.
C6_PopWeightedShare ==
    (Allocated /\ SumPopulation(call.suppliers) # 0) =>
        LET total == SumPopulation(call.suppliers)
            val == [i \in 1..Len(call.shares) |-> call.shares[i].val]
        IN  /\ \A i \in 1..Len(call.suppliers) :
                  /\ call.shares[i].raised = "none"
                  /\ val[i][3] = 0
                  /\ val[i][1] * total
                        = PopulationOf(call.suppliers[i].location) * val[i][2]
                  /\ call.suppliers[i].location \notin DOMAIN population
                        => val[i] = Zero
            /\ RSum(val) = One
            /\ (/\ Locations(call.suppliers) = <<"DE", "FR">>
                /\ population["DE"] = 7000000
                /\ population["FR"] = 3000000)
                  => val = << <<7, 10, 0>>, <<3, 10, 0>> >>

\* the shares of 7,000,000 next to 3,000,000
C6_Witness ==
    /\ Allocated
    /\ Locations(call.suppliers) = <<"DE", "FR">>
    /\ population["DE"] = 7000000
    /\ population["FR"] = 3000000
    /\ call.shares[1].val = <<7, 10, 0>>
    /\ call.shares[2].val = <<3, 10, 0>>

\* C7: on a list whose populations are all 0 the allocator raises an error
\* of its own, not the division's.
C7_ExplicitNoBasisError ==
    (Allocated /\ SumPopulation(call.suppliers) = 0) =>
        call.raised \notin {"none", "ZeroDivisionError"}

\* C8: 'World' maps to 'GLO' and 'GLO' maps to ['World'], and neither call
\* asks the geomatcher.
C8_WorldRoundTrip ==
    /\ (call.fn = "remind_to_ecoinvent_location" /\ call.arg = "World") =>
          /\ call.raised = "none"
          /\ call.ret = PyStr("GLO")
          /\ call.geoq = <<>>
    /\ (call.fn = "ecoinvent_to_remind_location" /\ call.arg = "GLO") =>
          /\ call.raised = "none"
          /\ call.ret = PyList(<<"World">>)
          /\ call.geoq = <<>>

\* 'World' went out and came back
C8_Witness ==
    /\ pc = "round trip"
    /\ call.from = "World"
    /\ call.fn = "ecoinvent_to_remind_location"
    /\ call.arg = "GLO"
    /\ call.ret = PyList(<<"World">>)

\* the scenario regions geo.within names for a location
Candidates(location) ==
    {r.val : r \in {x \in Range(geo.within[location]) :
                        x.tuple /\ x.ns = "REMIND"}}

\* the call was answered from the geomatcher
ViaWithin ==
    /\ call.fn = "ecoinvent_to_remind_location"
    /\ call.arg \in DOMAIN geo.within

\* C9: when geo.within names both 'EUR' and 'NEU' for a location, whatever
\* else it names, the list returned for the location holds no 'EUR'.
C9_EurDroppedWithNeu ==
    (ViaWithin /\ {"EUR", "NEU"} \subseteq Candidates(call.arg)) =>
        /\ call.raised = "none"
        /\ call.ret.kind = "list"
        /\ "EUR" \notin Range(call.ret.list)

\* 'EUR', 'NEU' and a third region were found, and 'NEU' is returned
C9_Witness ==
    /\ ViaWithin
    /\ {"EUR", "NEU"} \subseteq Candidates(call.arg)
    /\ Cardinality(Candidates(call.arg) \ {"World"}) = 3
    /\ call.ret.kind = "list"
    /\ "NEU" \in Range(call.ret.list)

\* C10: when geo.within names no scenario region for a location, a line is
\* printed and the empty list is returned.
C10_EmptyListOnNoRegion ==
    (ViaWithin /\ Candidates(call.arg) \subseteq {"World"}) =>
        /\ call.raised = "none"
        /\ call.out # <<>>
        /\ call.ret = PyList(<<>>)

\* the tier a product mentions, as lines 604-615 test it: "high" first,
\* then "medium", then "low"; "" when it mentions none
TierOf(product) ==
    IF product = Absent THEN ""
    ELSE IF Contains(product, "high") THEN "high"
    ELSE IF Contains(product, "medium") THEN "medium"
    ELSE IF Contains(product, "low") THEN "low" ELSE ""

TierName(tier) ==
    IF tier = "high" THEN HighName
    ELSE IF tier = "medium" THEN MediumName ELSE LowName

TierProduct(tier) ==
    IF tier = "high" THEN "electricity, high voltage"
    ELSE IF tier = "medium" THEN "electricity, medium voltage"
    ELSE "electricity, low voltage"

\* the records the runs start from, by name and location
Originals ==
    {Consumer, OldMarket, OtherMarket}
        \cup {CoalPlant(l) : l \in Range(CoalSites)}
        \cup {SolarPlant(l) : l \in Range(SolarSites)}

Original(ds) ==
    CHOOSE o \in Originals : o.name = ds.name /\ o.location = ds.location

\* an exchange relinking has to rewrite
Rewritable(exc) ==
    /\ exc.type # "production"
    /\ exc.unit = "kilowatt hour"
    /\ TierOf(exc.product) # ""

\* C14: once relinking has run to its end, every non-production
\* kilowatt-hour exchange of a record that is no market group whose product
\* mentions a tier bears the name and product of that tier's synthesized
\* market, and as location the first region ecoinvent_to_remind_location
\* returns for the location the exchange had before; its amount is as it was.
C14_RelinkRewrites ==
    pc = "done" =>
        \A i \in 1..Len(db) :
            ~Contains(db[i].name, "market group for electricity") =>
                LET before == Original(db[i]).exchanges
                IN  /\ Len(db[i].exchanges) = Len(before)
                    /\ \A j \in 1..Len(before) :
                          Rewritable(before[j]) =>
                              LET after == db[i].exchanges[j]
                                  tier == TierOf(before[j].product)
                                  to == ecoinvent_to_remind_location(
                                            before[j].location).ret
                              IN  /\ after.name = TierName(tier)
                                  /\ after.product = TierProduct(tier)
                                  /\ to.kind = "list"
                                  /\ after.location = to.list[1]
                                  /\ after.amount = before[j].amount

\* the consumer's medium voltage input at 'DE', which lies in two regions
\* after the exclusions, points at the first of them; its high voltage
\* input at 'GLO' points at 'World'
C14_Witness ==
    /\ pc = "done"
    /\ ecoinvent_to_remind_location("DE").ret = PyList(<<"LAM", "EUR">>)
    /\ db[1].name = "steel production"
    /\ db[1].exchanges[2].name = MediumName
    /\ db[1].exchanges[2].location = "LAM"
    /\ db[1].exchanges[3].name = HighName
    /\ db[1].exchanges[3].location = "World"

\* C17: when geo.within names more than one scenario region for a
\* location, the list returned for the location holds exactly one region.
C17_TieBreakConverges ==
    (ViaWithin /\ Cardinality(Candidates(call.arg) \ {"World"}) > 1) =>
        /\ call.raised = "none"
        /\ call.ret.kind = "list"
        /\ Len(call.ret.list) = 1

\* C18: for 'World' and for every region the geomatcher knows,
\* remind_to_ecoinvent_location returns a list, and for 'World' the list
\* that holds 'GLO' alone.
C18_ReturnsListForEveryRegion ==
    (/\ call.fn = "remind_to_ecoinvent_location"
     /\ call.arg \in {"World"} \cup DOMAIN geo.intersects) =>
        /\ call.raised = "none"
        /\ call.ret.kind = "list"
        /\ call.arg = "World" => call.ret = PyList(<<"GLO">>)

\* the exchanges of a record that come from suppliers of a solar technology
SolarInputs(ds) ==
    SelectSeq(ds.exchanges,
              LAMBDA exc :
                 /\ exc.type = "technosphere"
                 /\ \E technology \in Range(rmd.variables) :
                       /\ IsSolar(technology)
                       /\ exc.name \in SupplierNames(technology))

\* C19: in every low voltage record the input from the medium voltage
\* market is (1 - S) x 1.0276, S the sum of the solar supplier exchanges
\* of the record.
C19_LowVoltageConservation ==
    \A i \in 1..Len(db) :
        db[i].name = LowName =>
            LET medium == SelectSeq(db[i].exchanges,
                                    LAMBDA exc : exc.name = MediumName)
            IN  /\ Len(medium) = 1
                /\ medium[1].amount
                      = RMul(RSub(One, RSum(Amounts(SolarInputs(db[i])))),
                             Rat(10276, 10000))

-----------------------------------------------------------------------------
(* Repeated runs: update_electricity_markets called again on the inventory *)
(* it left, and relink_activities_to_new_markets called a second time      *)

MaxRuns == 2

\* the calls of update_electricity_markets made so far
RunsStarted == Len(SelectSeq(printed, LAMBDA line : line = PhaseLines[1]))

\* the call has returned or raised, and update_electricity_markets is
\* called again on self.db as it is
RunAgain ==
    /\ pc \in {"done", "aborted"}
    /\ RunsStarted < MaxRuns
    /\ pc' = "remove"
    /\ UNCHANGED <<db, rmd, geo, population, error, printed, queries, call>>

\* relink_activities_to_new_markets called on the inventory a run relinked
RelinkAgain ==
    /\ pc = "done"
    /\ \E r \in {relink_activities_to_new_markets(db)} :
           /\ db' = r.db
           /\ printed' = printed \o r.out
           /\ error' = r.raised
           /\ call' = [NoCall EXCEPT
                          !.fn = "relink_activities_to_new_markets",
                          !.raised = r.raised, !.out = r.out, !.before = db]
    /\ pc' = "relinked again"
    /\ UNCHANGED <<rmd, geo, population, queries>>

NextRuns == Next \/ RunAgain \/ RelinkAgain

SpecRuns == Init /\ [][NextRuns]_vars

\* name, product and location of every exchange of an inventory
Links(d) ==
    [i \in 1..Len(d) |->
        [j \in 1..Len(d[i].exchanges) |->
            <<d[i].exchanges[j].name, d[i].exchanges[j].product,
              d[i].exchanges[j].location>>]]

\* C15: a second run of relinking on a relinked inventory returns, and
\* name, product and location of every exchange are as the first run left
\* them.
C15_RelinkIdempotent ==
    pc = "relinked again" =>
        /\ error = "none"
        /\ Links(db) = Links(call.before)

\* the phase the current run printed last
LastPhase ==
    LET phases == SelectSeq(printed, LAMBDA line : line \in Range(PhaseLines))
    IN  IF phases = <<>> THEN <<>> ELSE phases[Len(phases)]

\* the three builders of the current run have returned
BuildersReturned ==
    \/ pc \in {"relink", "done", "relinked again"}
    \/ pc = "aborted" /\ LastPhase = PhaseLines[5]

\* C20: in every run, the first and the later ones, once the builders have
\* returned the inventory holds exactly one synthesized record for every
\* tier and scenario region, and no other record whose name contains one
\* of the eight removed patterns.
C20_OneMarketPerTierAndRegion ==
    BuildersReturned =>
        /\ \A name \in SynthesizedNames, region \in Range(rmd.regions) :
              Cardinality({i \in 1..Len(db) :
                              db[i].name = name /\ db[i].location = region}) = 1
        /\ \A i \in 1..Len(db) :
              (\E k \in 1..Len(list_to_remove) :
                  Contains(db[i].name, list_to_remove[k]))
                 => /\ db[i].name \in SynthesizedNames
                    /\ db[i].location \in Range(rmd.regions)

\* the builders of a second run have returned, on an inventory that held
\* the synthesized records of the first
C20_Witness ==
    /\ RunsStarted = 2
    /\ pc = "relink"
    /\ AllTiersExist
    /\ error = "none"

-----------------------------------------------------------------------------
(* update_electricity_efficiency *)

\* a float that is not a number; arithmetic on it gives it back
NaN == <<0, 0, 0>>
IsNaN(x) == x[2] = 0

FMul(x, y) == IF IsNaN(x) \/ IsNaN(y) THEN NaN ELSE RMul(x, y)

\* x / y, of two numbers without exponent, y not 0
FDiv(x, y) == IF IsNaN(x) \/ IsNaN(y) THEN NaN
              ELSE Rat(x[1] * y[2], x[2] * y[1])

\* self.fuels_lhv, read with float(): fuel name -> lower heating value, MJ/kg
fuels_lhv == [k \in {"hard coal"} |-> Rat(18, 1)]

\* self.emissions_map: name of a biosphere flow -> scenario pollutant label
emissions_map == [n \in {"Sulfur dioxide"} |-> "SO2"]

\* an exchange with uncertainty data: the fields of exc and 'scale'
Uncertain(exc, utype, scale) ==
    [k \in DOMAIN exc \cup {"scale"} |->
        IF k = "scale" THEN scale ELSE IF k = "utype" THEN utype ELSE exc[k]]

\* wurst.rescale_exchange(exc, value, remove_uncertainty): the amount is
\* multiplied by value; the uncertainty data goes when remove_uncertainty
rescale_exchange(exc, value, remove_uncertainty) ==
    LET amount == FMul(exc.amount, value)
    IN  IF remove_uncertainty
        THEN [k \in DOMAIN exc \ {"scale", "shape", "minimum", "maximum"} |->
                IF k \in {"amount", "loc"} THEN amount
                ELSE IF k = "utype" THEN 0 ELSE exc[k]]
        ELSE [exc EXCEPT !.amount = amount]

\* d[key] = value on a dictionary
SetItem(d, key, value) ==
    [k \in DOMAIN d \cup {key} |-> IF k = key THEN value ELSE d[k]]

EmptyDict == [k \in {} |-> Zero]

\* the fuel inputs of a record: 'fuel filters' of 'Coal PC', lines 780-782
FuelInputs(ds) ==
    SelectSeq(ds.exchanges,
              LAMBDA exc : /\ exc.type = "technosphere"
                           /\ \/ Contains(exc.name, "hard coal")
                              \/ Contains(exc.name, "lignite")
                           /\ ~Contains(exc.name, "ash")
                           /\ ~Contains(exc.name, "SOx")
                           /\ exc.unit = "kilogram")

\* ws.reference_product(ds)['amount']
ReferenceAmount(ds) ==
    SelectSeq(ds.exchanges, LAMBDA exc : exc.type = "production")[1].amount

\* line 634: sum of lhv / 3.6 * amount over the fuels k named in an input
EnergyInputLhv(ds) ==
    RSum([i \in 1..Len(FuelInputs(ds)) |->
            RSum([k \in 1..1 |->
                    IF Contains(FuelInputs(ds)[i].name, "hard coal")
                    THEN RMul(FDiv(fuels_lhv["hard coal"], Rat(36, 10)),
                              FuelInputs(ds)[i].amount)
                    ELSE Zero])])

\* line 643: sum of amount / 3.6
EnergyInputMj(ds) ==
    RSum([i \in 1..Len(FuelInputs(ds)) |->
            FDiv(FuelInputs(ds)[i].amount, Rat(36, 10))])

\* line 629: the parameters named '...efficiency...' and not '...thermal...'
EfficiencyKeys(parameters) ==
    {key \in DOMAIN parameters :
        Contains(key, "efficiency") /\ ~Contains(key, "thermal")}

\* lines 627-648: [ds, val, raised]
find_ecoinvent_fuel_efficiency(ds) ==
    IF Contains(ds.database, "ecoinvent")
    THEN IF "parameters" \notin DOMAIN ds
         THEN [ds |-> ds, val |-> Zero, raised |-> "KeyError"]
         ELSE IF EfficiencyKeys(ds.parameters) # {}
         THEN [ds |-> ds, raised |-> "none",
               val |-> ds.parameters[CHOOSE key \in
                                        EfficiencyKeys(ds.parameters) : TRUE]]
         ELSE With(FDiv(ReferenceAmount(ds), EnergyInputLhv(ds)),
                   LAMBDA eff :
                      [ds |-> SetItem(ds, "parameters",
                                 SetItem(ds.parameters, "efficiency", eff)),
                       val |-> eff, raised |-> "none"])
    ELSE With(FDiv(ReferenceAmount(ds), EnergyInputMj(ds)),
              LAMBDA eff :
                 [ds |-> SetItem(ds, "parameters",
                            SetItem(EmptyDict, "efficiency", eff)),
                  val |-> eff, raised |-> "none"])

\* table.loc[region=remind_locations]: the values of the regions of the
\* list, [val, raised]; a label the table does not have (None too) raises
RegionValues(table, remind_locations) ==
    IF remind_locations.kind # "list"
    THEN [val |-> <<>>, raised |-> "KeyError"]
    ELSE IF \E i \in 1..Len(remind_locations.list) :
                remind_locations.list[i] \notin DOMAIN table
    THEN [val |-> <<>>, raised |-> "KeyError"]
    ELSE [val |-> [i \in 1..Len(remind_locations.list) |->
                      table[remind_locations.list[i]]],
          raised |-> "none"]

\* .mean() of a non-empty array
Mean(values) ==
    IF \E i \in 1..Len(values) : IsNaN(values[i]) THEN NaN
    ELSE FDiv(RSum(values), Rat(Len(values), 1))

\* lines 663-671: [ds, val, raised, out]
find_fuel_efficiency_scaling_factor(ds, technology) ==
    With(find_ecoinvent_fuel_efficiency(ds),
         LAMBDA ecoinvent_eff :
            IF ecoinvent_eff.raised # "none"
            THEN [ds |-> ecoinvent_eff.ds, val |-> Zero,
                  raised |-> ecoinvent_eff.raised, out |-> <<>>]
            ELSE With(ecoinvent_to_remind_location(ds.location),
                      LAMBDA e2r :
                         IF e2r.raised # "none"
                         THEN [ds |-> ecoinvent_eff.ds, val |-> Zero,
                               raised |-> e2r.raised, out |-> e2r.out]
                         ELSE With(RegionValues(
                                     rmd.electricity_efficiencies[
                                        rmd.electricity_efficiency_labels[
                                           technology]],
                                     e2r.ret),
                                   LAMBDA remind_eff :
                                      IF remind_eff.raised # "none"
                                      THEN [ds |-> ecoinvent_eff.ds,
                                            val |-> Zero,
                                            raised |-> remind_eff.raised,
                                            out |-> e2r.out]
                                      ELSE [ds |-> ecoinvent_eff.ds,
                                            val |-> FDiv(ecoinvent_eff.val,
                                                       Mean(remind_eff.val)),
                                            raised |-> "none",
                                            out |-> e2r.out])))

\* lines 681-687
update_ecoinvent_efficiency_parameter(ds, scaling_factor) ==
    SetItem(ds, "parameters",
        [key \in DOMAIN ds.parameters |->
            IF key \in {"efficiency", "efficiency_oil_country",
                        "efficiency_electrical"}
            THEN FDiv(ds.parameters[key], scaling_factor)
            ELSE ds.parameters[key]])

\* ws.contains('name', x) for a key x of self.emissions_map
IsMappedEmission(exc) ==
    \E x \in DOMAIN emissions_map : Contains(exc.name, x)

\* mutant: inputs from the old electricity markets are left out of the
\* rescaling
change_exchanges_excluding_markets(ds, value) ==
    SetItem(ds, "exchanges",
        [i \in 1..Len(ds.exchanges) |->
            IF \/ /\ ds.exchanges[i].type = "technosphere"
                  /\ ~Contains(ds.exchanges[i].name, "market for electricity")
               \/ /\ ds.exchanges[i].type = "biosphere"
                  /\ ~IsMappedEmission(ds.exchanges[i])
            THEN rescale_exchange(ds.exchanges[i], value, TRUE)
            ELSE ds.exchanges[i]])

\* lines 890-891, wurst.change_exchanges_by_constant_factor: every
\* technosphere exchange, and every biosphere exchange whose name holds no
\* key of self.emissions_map, is rescaled by the factor
change_exchanges_by_constant_factor(ds, value) ==
    SetItem(ds, "exchanges",
        [i \in 1..Len(ds.exchanges) |->
            IF \/ ds.exchanges[i].type = "technosphere"
               \/ /\ ds.exchanges[i].type = "biosphere"
                  /\ ~IsMappedEmission(ds.exchanges[i])
            THEN rescale_exchange(ds.exchanges[i], value, TRUE)
            ELSE ds.exchanges[i]])

\* mutant: the exchange is rescaled by the target itself
EmissionFactorTarget(amount, remind_emission) == remind_emission

\* lines 903-907: the value handed to wurst.rescale_exchange
EmissionFactor(amount, remind_emission) ==
    IF amount = Zero THEN FDiv(remind_emission, One)
    ELSE FDiv(remind_emission, amount)

\* lines 895-907 for one exchange of a record: [exc, raised, out]
UpdateEmission(ds, exc, remind_technology) ==
    IF ~(exc.type = "biosphere" /\ IsMappedEmission(exc))
    THEN [exc |-> exc, raised |-> "none", out |-> <<>>]
    ELSE IF exc.name \notin DOMAIN emissions_map
    THEN [exc |-> exc, raised |-> "KeyError", out |-> <<>>]
    ELSE With(ecoinvent_to_remind_location(ds.location),
          LAMBDA e2r :
            IF e2r.raised # "none"
            THEN [exc |-> exc, raised |-> e2r.raised, out |-> e2r.out]
            ELSE With(RegionValues(
                        [r \in DOMAIN rmd.electricity_emissions |->
                            rmd.electricity_emissions[r][
                               emissions_map[exc.name]][
                               rmd.electricity_emission_labels[
                                  remind_technology]]],
                        e2r.ret),
                  LAMBDA remind_emission :
                    IF remind_emission.raised # "none"
                    THEN [exc |-> exc, raised |-> remind_emission.raised,
                          out |-> e2r.out]
                    ELSE IF Len(remind_emission.val) # 1
                    THEN \* `if` on an array that has not one element
                         [exc |-> exc, raised |-> "ValueError",
                          out |-> e2r.out]
                    ELSE [exc |-> rescale_exchange(exc,
                                     EmissionFactor(exc.amount,
                                                    remind_emission.val[1]),
                                     TRUE),
                          raised |-> "none",
                          out |-> e2r.out \o
                                  (IF IsNaN(remind_emission.val[1])
                                   THEN << <<"nan", emissions_map[exc.name],
                                             ds.name>> >>
                                   ELSE <<>>)]))

\* one exchange of the loop of line 894: acc = [excs, raised, out]
EmissionStep(ds, exc, remind_technology, acc) ==
    IF acc.raised # "none" THEN [acc EXCEPT !.excs = Append(acc.excs, exc)]
    ELSE With(UpdateEmission(ds, exc, remind_technology),
              LAMBDA r : [excs |-> Append(acc.excs, r.exc),
                          raised |-> r.raised, out |-> acc.out \o r.out])

RECURSIVE EmissionLoop(_, _, _, _)
EmissionLoop(ds, todo, remind_technology, acc) ==
    IF todo = <<>> THEN acc
    ELSE CHOOSE r \in
            {EmissionLoop(ds, Tail(todo), remind_technology, next) :
                next \in {EmissionStep(ds, Head(todo), remind_technology,
                                       acc)}} : TRUE

\* lines 886-907 for one record: [ds, raised, out]
RescaleDataset(ds, remind_technology) ==
    With(find_fuel_efficiency_scaling_factor(ds, remind_technology),
         LAMBDA scaling_factor :
            IF scaling_factor.raised # "none"
            THEN [ds |-> scaling_factor.ds, raised |-> scaling_factor.raised,
                  out |-> scaling_factor.out]
            ELSE With(change_exchanges_by_constant_factor(
                         update_ecoinvent_efficiency_parameter(
                            scaling_factor.ds, scaling_factor.val),
                         scaling_factor.val),
                      LAMBDA scaled :
                         With(EmissionLoop(scaled, scaled.exchanges,
                                  remind_technology,
                                  [excs |-> <<>>, raised |-> "none",
                                   out |-> scaling_factor.out]),
                              LAMBDA e :
                                 [ds |-> SetItem(scaled, "exchanges", e.excs),
                                  raised |-> e.raised, out |-> e.out])))

\* the keys of get_remind_mapping(), in the order of lines 759-860
technologies_map ==
    << "Coal IGCC", "Coal IGCC CCS", "Coal PC", "Coal PC CCS", "Coal CHP",
       "Gas OC", "Gas CC", "Gas CHP", "Gas CCS", "Oil", "Biomass CHP",
       "Biomass IGCC CCS", "Biomass IGCC" >>

\* lines 699-703
GenericExcludes(ds) ==
    /\ ~Contains(ds.name, "aluminium industry")
    /\ ~Contains(ds.name, "carbon capture and storage")
    /\ ~Contains(ds.name, "market")

CoalOrLignite(ds) == Contains(ds.name, "coal") \/ Contains(ds.name, "lignite")

\* 'technology filters' of a technology, lines 706-866; those taken from
\* wurst.ecoinvent.filters are given by the name they ask for
TechnologyFilter(remind_technology, ds) ==
    /\ ds.unit = "kilowatt hour"
    /\ CASE remind_technology = "Coal PC" ->
               /\ Contains(ds.name, "hard coal") \/ Contains(ds.name, "lignite")
               /\ ~Contains(ds.name, "ash") /\ ~Contains(ds.name, "SOx")
               /\ GenericExcludes(ds)
         [] remind_technology = "Coal IGCC" ->
               /\ CoalOrLignite(ds) /\ Contains(ds.name, "IGCC")
               /\ Contains(ds.name, "pre") /\ Contains(ds.name, "no CCS")
         [] remind_technology = "Coal IGCC CCS" ->
               /\ CoalOrLignite(ds) /\ Contains(ds.name, "storage")
               /\ Contains(ds.name, "pre")
         [] remind_technology = "Coal PC CCS" ->
               /\ CoalOrLignite(ds) /\ Contains(ds.name, "storage")
               /\ Contains(ds.name, "post")
         [] remind_technology = "Coal CHP" ->
               /\ CoalOrLignite(ds)
               /\ Contains(ds.name, "heat and power co-generation")
               /\ GenericExcludes(ds)
         [] remind_technology \in {"Gas OC", "Gas CC", "Gas CHP", "Gas CCS"} ->
               Contains(ds.name, "natural gas")
         [] remind_technology = "Oil" ->
               Contains(ds.name, "oil") /\ GenericExcludes(ds)
         [] remind_technology = "Biomass CHP" ->
               /\ Contains(ds.name, " wood") \/ Contains(ds.name, "bio")
               /\ Contains(ds.name, "heat and power co-generation")
               /\ GenericExcludes(ds)
         [] remind_technology = "Biomass IGCC CCS" ->
               /\ \/ Contains(ds.name, "SNG") \/ Contains(ds.name, "wood")
                  \/ Contains(ds.name, "BIGCC")
               /\ Contains(ds.name, "storage")
         [] remind_technology = "Biomass IGCC" ->
               Contains(ds.name, "BIGCC") /\ Contains(ds.name, "no CCS")

\* one record of the loop of line 884: acc = [db, raised, out]
RescaleStep(ds, remind_technology, acc) ==
    IF acc.raised # "none" \/ ~TechnologyFilter(remind_technology, ds)
    THEN [acc EXCEPT !.db = Append(acc.db, ds)]
    ELSE With(RescaleDataset(ds, remind_technology),
              LAMBDA r : [db |-> Append(acc.db, r.ds), raised |-> r.raised,
                          out |-> acc.out \o r.out])

RECURSIVE RescaleLoop(_, _, _)
RescaleLoop(todo, remind_technology, acc) ==
    IF todo = <<>> THEN acc
    ELSE CHOOSE r \in
            {RescaleLoop(Tail(todo), remind_technology, next) :
                next \in {RescaleStep(Head(todo), remind_technology, acc)}} :
            TRUE

\* lines 880-907 for one technology: acc = [db, raised, out]
TechnologyStep(remind_technology, acc) ==
    RescaleLoop(acc.db, remind_technology,
        [db |-> <<>>, raised |-> "none",
         out |-> Append(acc.out,
                    <<"Rescale inventories and emissions for",
                      remind_technology>>)])

RECURSIVE TechnologyLoop(_, _)
TechnologyLoop(todo, acc) ==
    IF todo = <<>> \/ acc.raised # "none" THEN acc
    ELSE CHOOSE r \in
            {TechnologyLoop(Tail(todo), next) :
                next \in {TechnologyStep(Head(todo), acc)}} : TRUE

\* lines 869-909: [db, raised, out]
update_electricity_efficiency(d) ==
    TechnologyLoop(technologies_map,
                   [db |-> d, raised |-> "none", out |-> <<>>])

-----------------------------------------------------------------------------
(* update_electricity_efficiency on its own *)

\* a coal power plant with its fuel input, an electricity input, a mapped
\* and an unmapped emission, and its parameters
PowerPlant(location, parameters, so2) ==
    SetItem(
        Dataset(location, "electricity production, hard coal",
            "electricity, high voltage", "kilowatt hour", "ecoinvent",
            << Exchange("production", "electricity production, hard coal",
                   "electricity, high voltage", "kilowatt hour", location, One),
               Uncertain(Exchange("technosphere", "market for hard coal",
                             "hard coal", "kilogram", "RoW", Rat(2, 5)),
                         2, Rat(1, 10)),
               Exchange("technosphere", "market for electricity, low voltage",
                   "electricity, low voltage", "kilowatt hour", location,
                   Rat(1, 100)),
               Uncertain(Biosphere("Sulfur dioxide", "kilogram", so2,
                             "biosphere3/fd7aa71c-508c-480d-81a6-8052aad92646",
                             "air/non-urban air or from high stacks"),
                         2, Rat(1, 5)),
               Biosphere("Carbon dioxide, fossil", "kilogram", One,
                   "biosphere3/aa7cac3a-3625-41d4-bc54-33e2cf11ec46",
                   "air/non-urban air or from high stacks") >>),
        "parameters", parameters)

ParameterSets == {EmptyDict, SetItem(EmptyDict, "efficiency", Rat(1, 2))}
EmissionAmounts == {Zero, Rat(2, 1)}
EfficiencyTargets == {Rat(2, 5), Rat(1, 2)}
EmissionTargets == {NaN, One, Rat(42, 1000)}
PlantSites == <<"DE", "FR">>

\* the scenario with its efficiency and emission tables: efficiency of
\* coal plants in 'EUR', and intensity of SO2 from them in 'EUR'
ScenarioTables(markets, efficiency, emission) ==
    [k \in DOMAIN Scenario(markets)
           \cup {"electricity_efficiencies", "electricity_efficiency_labels",
                 "electricity_emissions", "electricity_emission_labels"} |->
        CASE k = "electricity_efficiencies" ->
                [v \in Range(technologies_map) |->
                    [r \in Range(Regions) |->
                        IF v = "Coal PC" /\ r = "EUR" THEN efficiency
                        ELSE Rat(1, 2)]]
          [] k \in {"electricity_efficiency_labels",
                    "electricity_emission_labels"} ->
                [t \in Range(technologies_map) |-> t]
          [] k = "electricity_emissions" ->
                [r \in Range(Regions) |->
                    [pollutant \in {"SO2"} |->
                        [sector \in Range(technologies_map) |->
                            IF sector = "Coal PC" /\ r = "EUR" THEN emission
                            ELSE One]]]
          [] OTHER -> Scenario(markets)[k]]

NoMarkets == [v \in Range(Variables) |-> [r \in Range(Regions) |-> Zero]]

InitEfficiency ==
    /\ \E sites \in SUBSET Range(PlantSites) \ {{}},
          parameters \in ParameterSets, so2 \in EmissionAmounts :
          LET at == SelectSeq(PlantSites, LAMBDA l : l \in sites)
          IN  db = <<Consumer, OtherMarket>>
                      \o [i \in 1..Len(at) |->
                            PowerPlant(at[i], parameters, so2)]
    /\ \E efficiency \in EfficiencyTargets, emission \in EmissionTargets :
          rmd = ScenarioTables(NoMarkets, efficiency, emission)
    /\ \E cands \in {<<>>, <<"EUR">>, <<"EUR", "NEU">>} :
          geo = Geomatcher(cands)
    /\ population = Population(7000000, 3000000, 0)
    /\ pc = "idle"
    /\ error = "none"
    /\ printed = <<>>
    /\ queries = <<>>
    /\ call = NoCall

UpdateEfficiency ==
    /\ pc = "idle"
    /\ \E r \in {update_electricity_efficiency(db)} :
           /\ db' = r.db
           /\ printed' = printed \o r.out
           /\ error' = r.raised
           /\ pc' = IF r.raised = "none" THEN "rescaled" ELSE "aborted"
           /\ call' = [NoCall EXCEPT !.fn = "update_electricity_efficiency",
                                     !.raised = r.raised, !.out = r.out,
                                     !.before = db]
    /\ UNCHANGED <<rmd, geo, population, queries>>

NextEfficiency == UpdateEfficiency

SpecEfficiency == InitEfficiency /\ [][NextEfficiency]_vars

\* the scenario's intensity for the mapped pollutants of a record of the
\* technology, where its location lies in exactly one region
HasTarget(ds) ==
    LET to == ecoinvent_to_remind_location(ds.location)
    IN  /\ to.raised = "none"
        /\ to.ret.kind = "list"
        /\ Len(to.ret.list) = 1
        /\ to.ret.list[1] \in DOMAIN rmd.electricity_emissions

TargetOf(ds, remind_technology) ==
    rmd.electricity_emissions[
        ecoinvent_to_remind_location(ds.location).ret.list[1]]["SO2"][
        rmd.electricity_emission_labels[remind_technology]]

MappedEmission(exc) == exc.type = "biosphere" /\ IsMappedEmission(exc)

\* C11: after update_electricity_efficiency has returned, a mapped pollutant
\* exchange whose amount was exactly 0 has the scenario's target intensity
\* as its amount (0 and 0.042 give 0.042) and carries no uncertainty data
C11_ZeroAmountSetToTarget ==
    pc = "rescaled" =>
        \A i \in 1..Len(db) :
            TechnologyFilter("Coal PC", call.before[i]) =>
                \A j \in 1..Len(db[i].exchanges) :
                    LET before == call.before[i].exchanges[j]
                        after == db[i].exchanges[j]
                        target == TargetOf(call.before[i], "Coal PC")
                    IN  (/\ MappedEmission(before)
                         /\ before.amount = Zero
                         /\ ~IsNaN(target)) =>
                            /\ after.amount = target
                            /\ after.utype = 0
                            /\ "scale" \notin DOMAIN after

\* C12: after update_electricity_efficiency has returned, a mapped pollutant
\* exchange whose amount was not 0 has the scenario's target intensity as
\* its amount (2.0 and 1.0 give 1.0), whatever factor rescaled the rest of
\* the record
C12_NonZeroAmountSetToTarget ==
    pc = "rescaled" =>
        \A i \in 1..Len(db) :
            TechnologyFilter("Coal PC", call.before[i]) =>
                \A j \in 1..Len(db[i].exchanges) :
                    LET before == call.before[i].exchanges[j]
                        after == db[i].exchanges[j]
                        target == TargetOf(call.before[i], "Coal PC")
                    IN  (/\ MappedEmission(before)
                         /\ before.amount # Zero
                         /\ ~IsNaN(target)) =>
                            after.amount = target

\* a plant emitting 2 with a target of 1 ends at 1, while its fuel input
\* went from 2/5 to 1/2 by the efficiency factor 5/4
C12_Witness ==
    /\ pc = "rescaled"
    /\ \E i \in 1..Len(db) :
          /\ TechnologyFilter("Coal PC", call.before[i])
          /\ call.before[i].exchanges[4].amount = Rat(2, 1)
          /\ TargetOf(call.before[i], "Coal PC") = One
          /\ db[i].exchanges[4].amount = One
          /\ call.before[i].exchanges[2].amount = Rat(2, 5)
          /\ db[i].exchanges[2].amount = Rat(1, 2)

\* C13: when update_electricity_efficiency meets a target intensity that is
\* NaN, it raises an error and no exchange of the inventory has NaN as its
\* amount
C13_NaNTargetRejected ==
    (/\ call.fn = "update_electricity_efficiency"
     /\ \E i \in 1..Len(call.before) :
           /\ TechnologyFilter("Coal PC", call.before[i])
           /\ \E j \in 1..Len(call.before[i].exchanges) :
                 MappedEmission(call.before[i].exchanges[j])
           /\ HasTarget(call.before[i])
           /\ IsNaN(TargetOf(call.before[i], "Coal PC"))) =>
        /\ error # "none"
        /\ \A i \in 1..Len(db) : \A j \in 1..Len(db[i].exchanges) :
              ~IsNaN(db[i].exchanges[j].amount)

-----------------------------------------------------------------------------
(* update_electricity_efficiency and update_electricity_markets, one after
   the other in either order *)

\* lines 911-945 as one call: [db, raised, out, queries]
update_electricity_markets(d) ==
    With(create_new_markets_high_voltage(RemoveOldMarkets(d)),
     LAMBDA high :
      LET out1 == << <<"Remove old electricity datasets">>,
                     <<"Create high voltage markets.">> >> \o high.out
      IN  IF high.raised # "none"
          THEN [db |-> high.db, raised |-> high.raised, out |-> out1,
                queries |-> high.queries]
          ELSE
     With(create_new_markets_medium_voltage(high.db),
      LAMBDA medium :
       LET out2 == Append(out1, <<"Create medium voltage markets.">>)
                      \o medium.out
           q2 == high.queries \o medium.queries
       IN  IF medium.raised # "none"
           THEN [db |-> medium.db, raised |-> medium.raised, out |-> out2,
                 queries |-> q2]
           ELSE
      With(create_new_markets_low_voltage(medium.db),
       LAMBDA low :
        LET out3 == Append(out2, <<"Create low voltage markets.">>)
                       \o low.out
            q3 == q2 \o low.queries
        IN  IF low.raised # "none"
            THEN [db |-> low.db, raised |-> low.raised, out |-> out3,
                  queries |-> q3]
            ELSE
       With(relink_activities_to_new_markets(low.db),
        LAMBDA relink :
         [db |-> relink.db, raised |-> relink.raised,
          out |-> Append(out3,
                     <<"Link activities to new electricity markets.">>)
                     \o relink.out,
          queries |-> q3]))))

OrderInventory(sites, solar, parameters, so2) ==
    LET at == SelectSeq(PlantSites, LAMBDA l : l \in sites)
        s == SelectSeq(SolarSites, LAMBDA l : l \in solar)
    IN  <<Consumer, OldMarket, OtherMarket>>
            \o [i \in 1..Len(at) |-> PowerPlant(at[i], parameters, so2)]
            \o [i \in 1..Len(s) |-> SolarPlant(s[i])]

InitOrder ==
    /\ \E sites \in SUBSET Range(PlantSites) \ {{}},
          solar \in SUBSET Range(SolarSites),
          parameters \in ParameterSets, so2 \in EmissionAmounts :
          db = OrderInventory(sites, solar, parameters, so2)
    /\ \E coal \in ShareValues, sun \in ShareValues,
          efficiency \in EfficiencyTargets, emission \in EmissionTargets :
          rmd = ScenarioTables(
                   [v \in Range(Variables) |-> [r \in Range(Regions) |->
                       IF r # "EUR" THEN Zero
                       ELSE IF v = "SE|Electricity|Coal" THEN coal ELSE sun]],
                   efficiency, emission)
    /\ \E cands \in {<<>>, <<"EUR">>, <<"EUR", "NEU">>} :
          geo = Geomatcher(cands)
    /\ population = Population(7000000, 3000000, 0)
    /\ pc = "idle"
    /\ error = "none"
    /\ printed = <<>>
    /\ queries = <<>>
    /\ call = NoCall

\* where the run is after one of the two calls
AfterCall(fn, raised) ==
    IF raised # "none" THEN "aborted"
    ELSE IF pc = "idle" THEN fn
    ELSE "both"

\* the call made, the first call of the run and the inventory it started on
Called(fn, r) ==
    [NoCall EXCEPT !.fn = fn, !.raised = r.raised, !.out = r.out,
                   !.from = IF pc = "idle" THEN fn ELSE call.from,
                   !.before = IF pc = "idle" THEN db ELSE call.before]

CallUpdateMarkets ==
    /\ pc \in {"idle", "update_electricity_efficiency"}
    /\ \E r \in {update_electricity_markets(db)} :
           /\ db' = r.db
           /\ printed' = printed \o r.out
           /\ queries' = queries \o r.queries
           /\ error' = r.raised
           /\ pc' = AfterCall("update_electricity_markets", r.raised)
           /\ call' = Called("update_electricity_markets", r)
    /\ UNCHANGED <<rmd, geo, population>>

CallUpdateEfficiency ==
    /\ pc \in {"idle", "update_electricity_markets"}
    /\ \E r \in {update_electricity_efficiency(db)} :
           /\ db' = r.db
           /\ printed' = printed \o r.out
           /\ error' = r.raised
           /\ pc' = AfterCall("update_electricity_efficiency", r.raised)
           /\ call' = Called("update_electricity_efficiency", r)
    /\ UNCHANGED <<rmd, geo, population, queries>>

NextOrder == CallUpdateMarkets \/ CallUpdateEfficiency

SpecOrder == InitOrder /\ [][NextOrder]_vars

\* the two calls in the order the run did not take, on the inventory the
\* run started from
OtherOrder ==
    IF call.from = "update_electricity_markets"
    THEN With(update_electricity_efficiency(call.before),
              LAMBDA e : IF e.raised # "none"
                         THEN [db |-> e.db, raised |-> e.raised]
                         ELSE With(update_electricity_markets(e.db),
                                   LAMBDA m : [db |-> m.db,
                                               raised |-> m.raised]))
    ELSE With(update_electricity_markets(call.before),
              LAMBDA m : IF m.raised # "none"
                         THEN [db |-> m.db, raised |-> m.raised]
                         ELSE With(update_electricity_efficiency(m.db),
                                   LAMBDA e : [db |-> e.db,
                                               raised |-> e.raised]))

\* C16: update_electricity_efficiency and update_electricity_markets
\* commute: when both have returned, the inventory is the one the other
\* order gives, and a run in which one of them raised has no order in which
\* both return
C16_OrdersCommute ==
    /\ pc = "both" => OtherOrder.raised = "none" /\ OtherOrder.db = db
    /\ pc = "aborted" => OtherOrder.raised # "none"

\* markets first, then efficiency: the plant at FR draws its own
\* electricity from the new low voltage market of 'EUR', by an amount that
\* the efficiency factor 5/4 brought from 1/100 to 1/80
C16_Witness ==
    /\ pc = "both"
    /\ call.from = "update_electricity_markets"
    /\ \E i \in 1..Len(db) :
          /\ db[i].name = "electricity production, hard coal"
          /\ db[i].location = "FR"
          /\ db[i].exchanges[3].name = LowName
          /\ db[i].exchanges[3].location = "EUR"
          /\ db[i].exchanges[3].amount = Rat(1, 80)
    /\ \E i \in 1..Len(db) : db[i].name = HighName

-----------------------------------------------------------------------------
(* References to the synthesized markets *)

\* the technosphere exchanges of the inventory that name a synthesized market
TierReferences(d) ==
    UNION {{<<i, j>> : j \in {k \in 1..Len(d[i].exchanges) :
                                /\ d[i].exchanges[k].type = "technosphere"
                                /\ d[i].exchanges[k].name \in SynthesizedNames}} :
           i \in 1..Len(d)}

Resolves(d, exc) ==
    \E k \in 1..Len(d) : d[k].name = exc.name /\ d[k].location = exc.location

\* C21: after update_electricity_markets has returned, every technosphere
\* exchange that bears the name of a synthesized tier market has a location
\* at which a synthesized record of that name exists in the inventory
C21_NoDanglingTierMarket ==
    pc = "done" =>
        \A ref \in TierReferences(db) :
            Resolves(db, db[ref[1]].exchanges[ref[2]])

\* what a call of relink_activities_to_new_markets may change between the
\* inventory before and the inventory after
RelinkFrame(before, after) ==
    /\ Len(after) = Len(before)
    /\ \A i \in 1..Len(before) :
          /\ [after[i] EXCEPT !.exchanges = before[i].exchanges] = before[i]
          /\ Len(after[i].exchanges) = Len(before[i].exchanges)
          /\ Contains(before[i].name, "market group for electricity") =>
                after[i] = before[i]
          /\ \A j \in 1..Len(before[i].exchanges) :
                LET x == before[i].exchanges[j]
                    y == after[i].exchanges[j]
                IN  /\ (x.type = "production" \/ x.unit # "kilowatt hour") =>
                           y = x
                    /\ [y EXCEPT !.name = x.name, !.product = x.product,
                                 !.location = x.location] = x

\* C22: a call of relink_activities_to_new_markets changes nothing but the
\* name, product and location of non-production kilowatt-hour exchanges:
\* amounts, production exchanges, exchanges in other units, the number and
\* order of records and exchanges, and the records whose name contains
\* 'market group for electricity' are as they were
C22_RelinkFrame == [][pc = "relink" => RelinkFrame(db, db')]_vars

\* relinking has returned: the steel record's medium voltage input bears
\* the market's name with its amount of 1/2, next to its untouched
\* production exchange and to a synthesized low voltage market that still
\* holds its solar supplier
C22_Witness ==
    /\ pc = "done"
    /\ db[1].exchanges[1] = Consumer.exchanges[1]
    /\ db[1].exchanges[2].name = MediumName
    /\ db[1].exchanges[2].amount = Rat(1, 2)
    /\ \E i \in 1..Len(db) :
          /\ db[i].name = LowName
          /\ \E j \in 1..Len(db[i].exchanges) :
                db[i].exchanges[j].name = "electricity production, photovoltaic"

-----------------------------------------------------------------------------
(* update_electricity_efficiency, twice *)

\* the parameters of the records: none, one of the three names
\* update_ecoinvent_efficiency_parameter knows, a thermal efficiency, and
\* another name that holds 'efficiency'
ParameterNames ==
    {"efficiency", "efficiency_oil_country", "efficiency_electrical",
     "efficiency_thermal", "efficiency_net"}

NamedParameterSets ==
    {EmptyDict} \cup {SetItem(EmptyDict, key, Rat(1, 2)) : key \in ParameterNames}

InitTwice ==
    /\ \E sites \in SUBSET Range(PlantSites) \ {{}},
          parameters \in NamedParameterSets, so2 \in EmissionAmounts :
          LET at == SelectSeq(PlantSites, LAMBDA l : l \in sites)
          IN  db = <<Consumer, OtherMarket>>
                      \o [i \in 1..Len(at) |->
                            PowerPlant(at[i], parameters, so2)]
    /\ \E efficiency \in EfficiencyTargets, emission \in EmissionTargets :
          rmd = ScenarioTables(NoMarkets, efficiency, emission)
    /\ \E cands \in {<<>>, <<"EUR">>, <<"EUR", "NEU">>} :
          geo = Geomatcher(cands)
    /\ population = Population(7000000, 3000000, 0)
    /\ pc = "idle"
    /\ error = "none"
    /\ printed = <<>>
    /\ queries = <<>>
    /\ call = NoCall

UpdateEfficiencyAgain ==
    /\ pc = "rescaled"
    /\ \E r \in {update_electricity_efficiency(db)} :
           /\ db' = r.db
           /\ printed' = printed \o r.out
           /\ error' = r.raised
           /\ pc' = IF r.raised = "none" THEN "rescaled again" ELSE "aborted"
           /\ call' = [NoCall EXCEPT !.fn = "update_electricity_efficiency",
                                     !.from = "update_electricity_efficiency",
                                     !.raised = r.raised, !.out = r.out,
                                     !.before = db]
    /\ UNCHANGED <<rmd, geo, population, queries>>

NextTwice == UpdateEfficiency \/ UpdateEfficiencyAgain

SpecTwice == InitTwice /\ [][NextTwice]_vars

\* the mean of the scenario's efficiencies over the regions of a record
EfficiencyTargetOf(ds, remind_technology) ==
    Mean(RegionValues(
            rmd.electricity_efficiencies[
                rmd.electricity_efficiency_labels[remind_technology]],
            ecoinvent_to_remind_location(ds.location).ret).val)

\* C23: a second run of update_electricity_efficiency finds, for every
\* record the first run processed, an efficiency equal to the mean target
\* of the scenario, and leaves every technosphere amount and every
\* parameter of the record as the first run left them
C23_RescaleIdempotent ==
    pc = "rescaled again" =>
        \A i \in 1..Len(db) :
            TechnologyFilter("Coal PC", call.before[i]) =>
                /\ find_ecoinvent_fuel_efficiency(call.before[i]).val
                      = EfficiencyTargetOf(call.before[i], "Coal PC")
                /\ db[i].parameters = call.before[i].parameters
                /\ \A j \in 1..Len(db[i].exchanges) :
                      db[i].exchanges[j].type = "technosphere" =>
                          db[i].exchanges[j].amount
                             = call.before[i].exchanges[j].amount

====
